---- MODULE Spec2Model ----
(***************************************************************************)
(* A model of the pi-bench benchmarking harness:                           *)
(*   - the four run macros of include/bench.h (isolation, signal mask,     *)
(*     warmup and timed loops, the L1 cache counters),                     *)
(*   - the statistics of include/stats.h and src/stats.h as                *)
(*     calculate_stats of include/data_processing.h applies them,          *)
(*   - the ranking report print_results of include/data_processing.h.      *)
(*                                                                         *)
(* The specifications share the variables:                                 *)
(*   Spec, SpecCapture, SpecLoop   the run macros, one step per action;    *)
(*   SpecStats      the statistics, applied to sample sets drawn in Init;  *)
(*   SpecRank       print_results, applied to result sets drawn in Init;   *)
(*   SpecValidate, SpecHarness, SpecExport, SpecLifecycle                  *)
(*                  the macros of include/utils.h over the registered      *)
(*                  benchmarks: validation, export, cleanup.               *)
(*                                                                         *)
(* A C double is modelled as an exact rational [num, den] (the values of   *)
(* the model are small, so no rounding happens), and sqrt as the tagged    *)
(* value [sqrt |-> r], which is equal for equal radicands only.            *)
(***************************************************************************)
EXTENDS Integers, Sequences, FiniteSets, TLC

\* ------------------------------------------------------------------ bounds
MaxTimed == 2
MaxWarmup == 1
MaxCount == 2
MaxLen == 4
MaxSample == 2
MaxEntries == 3
MaxMedian == 2
MaxBench == 2
MaxBuf == 2

\* --------------------------------------------------------- program constants
RT_PRIORITY == 99
\* uint64_t arithmetic wraps at 2^64; the checker's integers are 32 bits wide,
\* so the model's unsigned word wraps at 2^30 instead
UINT64_MOD == 1073741824
NO_FD == -1
USEC_PER_SEC == 1000000
NSEC_PER_USEC == 1000
\* char path[256] of to_csv
PATH_SIZE == 256

VARIABLES
  \* the calling thread, as the kernel holds it
  affinity, policy, priority, sigmask, governor,
  \* the perf-event descriptors of the process
  openFds, opened, closed, badClose,
  \* the benchmark object and the macro's locals
  pc, variant, core, benchmark, results, samples, cmr_is_results,
  old_set, old_policy, old_sp, idx, calls, counter, miss_rate, perf, tstart, tend,
  cycle_count_overhead, warnings,
  \* history of the run, for the properties (failed: the calls of the run
  \* that returned an error)
  pre, sigmask0, wrote, failed,
  \* the statistics (SpecStats)
  st,
  \* the ranking report (SpecRank)
  rk,
  \* the benchmarks registered through utils.h, their validation and export
  hx

threadVars == <<affinity, policy, priority, sigmask, governor>>
fdVars == <<openFds, opened, closed, badClose>>
isoLocals == <<old_set, old_policy, old_sp>>
loopVars == <<idx, calls, counter, miss_rate, perf, tstart, tend,
             cycle_count_overhead>>
dataVars == <<benchmark, results, samples, cmr_is_results, wrote>>
runVars == <<threadVars, fdVars, isoLocals, loopVars, dataVars, pc, variant, core,
             warnings, failed, pre, sigmask0>>
vars == <<runVars, st, rk, hx>>

\* ---------------------------------------------------------------- doubles
RECURSIVE GCD(_, _)
GCD(a, b) == IF b = 0 THEN a ELSE GCD(b, a % b)

Abs(x) == IF x < 0 THEN -x ELSE x

\* the double n/d, d # 0, in lowest terms with a positive denominator
Rat(n, d) ==
  LET g == GCD(Abs(n), Abs(d))
      s == IF d < 0 THEN -1 ELSE 1
  IN [num |-> s * (n \div g), den |-> s * (d \div g)]

RInt(n) == [num |-> n, den |-> 1]
RAdd(a, b) == Rat(a.num * b.den + b.num * a.den, a.den * b.den)
RSub(a, b) == Rat(a.num * b.den - b.num * a.den, a.den * b.den)
RMul(a, b) == Rat(a.num * b.num, a.den * b.den)
RDivInt(a, n) == Rat(a.num, a.den * n)
RLess(a, b) == a.num * b.den < b.num * a.den
RLeq(a, b) == a.num * b.den <= b.num * a.den


\* ------------------------------------------------------- the kernel's side
MaxCpu == 1
Cpus == 0..MaxCpu
Signals == {"SIGINT", "SIGUSR1", "SIGKILL"}
\* SIGKILL and SIGSTOP cannot be blocked; pthread_sigmask ignores them silently
Unblockable == {"SIGKILL"}
\* what an uninitialised struct sched_param may hold
GarbagePriority == {7}
\* the cores the benchmarks are pinned to
PinCores == {MaxCpu}

SigFillSet == Signals
SigEmptySet == {}

\* pthread_sigmask(SIG_BLOCK, set, NULL) and pthread_sigmask(SIG_UNBLOCK, set, NULL)
SigBlock(mask, set) == mask \cup (set \ Unblockable)
SigUnblock(mask, set) == mask \ set

\* sched_setscheduler accepts priority 0 for SCHED_OTHER and 1..99 for the
\* real-time policies; any other pair (a policy of -1 included) is EINVAL
ValidSched(pol, prio) ==
  \/ pol = "SCHED_OTHER" /\ prio = 0
  \/ pol \in {"SCHED_FIFO", "SCHED_RR"} /\ prio \in 1..99

\* sched_setaffinity fails with EINVAL when the mask holds no online cpu
ValidMask(mask) == mask \cap Cpus # {}

\* ------------------------------------------------- bench.h: signal helpers
block_all_signals_in_this_thread(mask) == SigBlock(mask, SigFillSet)

unblock_all_signals_in_this_thread(mask) == SigUnblock(mask, SigEmptySet)

\* the call the four run macros make last, under the message "Unblocking
\* signals in current thread!"
RunExitSigmask(mask) == block_all_signals_in_this_thread(mask)

\* ------------------------------------------------- bench.h: cache counters
\* perf_event_open hands out the lowest free descriptor above stderr
LowestFree(fds) == CHOOSE n \in 3..(3 + Cardinality(fds)) :
                     n \notin fds /\ \A m \in 3..(n - 1) : m \in fds

\* start_l1_cache_miss_counter without the close(counter.refs_fd) of the path
\* on which the second perf_event_open fails
start_l1_cache_miss_counter_noclose(fds, out) ==
  IF out = "refs_fail"
  THEN [counter |-> [refs_fd |-> NO_FD, miss_fd |-> NO_FD], fds |-> fds,
        opens |-> 0, closes |-> 0, warn |-> {"perf_event_open (L1D refs)"}]
  ELSE LET r == LowestFree(fds) IN
       IF out = "miss_fail"
       THEN [counter |-> [refs_fd |-> NO_FD, miss_fd |-> NO_FD],
             fds |-> fds \cup {r}, opens |-> 1, closes |-> 0,
             warn |-> {"perf_event_open (L1D misses)"}]
       ELSE LET m == LowestFree(fds \cup {r}) IN
            [counter |-> [refs_fd |-> r, miss_fd |-> m], fds |-> fds \cup {r, m},
             opens |-> 2, closes |-> 0, warn |-> {}]

\* start_l1_cache_miss_counter; out says which perf_event_open calls succeed.
\* The result is the counter, the descriptor table after the call, the
\* number of descriptors the call opened and closed, and what perror printed.
start_l1_cache_miss_counter(fds, out) ==
  IF out = "refs_fail"
  THEN [counter |-> [refs_fd |-> NO_FD, miss_fd |-> NO_FD], fds |-> fds,
        opens |-> 0, closes |-> 0, warn |-> {"perf_event_open (L1D refs)"}]
  ELSE LET r == LowestFree(fds) IN
       IF out = "miss_fail"
       THEN [counter |-> [refs_fd |-> NO_FD, miss_fd |-> NO_FD], fds |-> fds,
             opens |-> 1, closes |-> 1,
             warn |-> {"perf_event_open (L1D misses)"}]
       ELSE LET m == LowestFree(fds \cup {r}) IN
            [counter |-> [refs_fd |-> r, miss_fd |-> m], fds |-> fds \cup {r, m},
             opens |-> 2, closes |-> 0, warn |-> {}]

\* the last two lines of stop_l1_cache_miss_counter
MissRate(misses, refs) ==
  IF refs = 0 THEN RInt(0) ELSE Rat(100 * misses, refs)

\* ------------------------------------------------- bench.h: timer backends
\* samples[i] of the wall-clock macros; the C division truncates toward zero
TruncDiv(a, b) == IF a >= 0 THEN a \div b ELSE -((-a) \div b)

WallclockSample(s, e) ==
  ((e.sec - s.sec) * USEC_PER_SEC + TruncDiv(e.nsec - s.nsec, NSEC_PER_USEC))
    % UINT64_MOD

\* samples[i] of the cycle macros, in uint64_t arithmetic
CycleSample(s, e, overhead) == (((e - s) % UINT64_MOD) - overhead) % UINT64_MOD

\* get_cycle_count_overhead, from its two readings
get_cycle_count_overhead(s, e) == (e - s) % UINT64_MOD

\* readings of CLOCK_MONOTONIC, one either side of a second boundary
ClockReadings == {[sec |-> 0, nsec |-> 2000], [sec |-> 1, nsec |-> 400]}
TsLeq(a, b) == a.sec < b.sec \/ (a.sec = b.sec /\ a.nsec <= b.nsec)
ZeroTs == [sec |-> 0, nsec |-> 0]
CycleStarts == {0, UINT64_MOD - 1}
CycleDeltas == 0..1
CounterReadings == 0..MaxCount

NoCounter == [refs_fd |-> NO_FD, miss_fd |-> NO_FD]
\* long long misses = 0, refs = 0
NoPerf == [refs |-> 0, misses |-> 0]

\* stop_l1_cache_miss_counter; rd_refs and rd_miss are what read() stores for
\* each counter (a failed read leaves the initial 0, which is among them)
stop_l1_cache_miss_counter(cnt, fds, rd_refs, rd_miss) ==
  LET refs == IF cnt.refs_fd # NO_FD THEN rd_refs ELSE 0
      misses == IF cnt.miss_fd # NO_FD THEN rd_miss ELSE 0
      toClose == {cnt.refs_fd, cnt.miss_fd} \ {NO_FD}
  IN [rate |-> MissRate(misses, refs),
      refs |-> refs, misses |-> misses,
      fds |-> fds \ toClose,
      closes |-> Cardinality(toClose \cap fds),
      bad |-> Cardinality(toClose \ fds),
      counter |-> NoCounter]

\* --------------------------------------------------------- the run macros
Variants == {"FUNC", "PINNED", "CYCLES", "PINNED_CYCLES"}
Pinned(v) == v \in {"PINNED", "PINNED_CYCLES"}
Cycles(v) == v \in {"CYCLES", "PINNED_CYCLES"}
\* only BENCHMARK_FUNC_PINNED starts and stops the cache counters
Counts(v) == v = "PINNED"

\* the content of a malloc'ed cell that was never written
Uninit == -1
Zeros(n) == [k \in 1..n |-> 0]
RZeros(n) == [k \in 1..n |-> RInt(0)]
Fresh(n) == [k \in 1..n |-> Uninit]

NoBenchmark == [warmup_iterations |-> 0, timed_iterations |-> 0]
NoResults == [samples |-> <<>>, cache_miss_rates |-> <<>>, is_cycles |-> FALSE]
NoPre == [affinity |-> {}, policy |-> "none", priority |-> 0, governor |-> <<>>]
NoWrites == [lat |-> {}, cmr |-> {}]

RunIdle ==
  /\ pc = "idle" /\ variant = "none" /\ core = 0
  /\ benchmark = NoBenchmark /\ results = NoResults /\ samples = <<>>
  /\ cmr_is_results = FALSE /\ wrote = NoWrites
  /\ old_set = {} /\ old_policy = "none" /\ old_sp = 0
  /\ idx = 0 /\ calls = 0 /\ counter = NoCounter /\ miss_rate = RInt(0)
  /\ perf = NoPerf
  /\ tstart = 0 /\ tend = 0 /\ cycle_count_overhead = 0
  /\ warnings = {} /\ failed = {} /\ pre = NoPre

RunInit ==
  /\ affinity = Cpus
  /\ policy = "SCHED_OTHER" /\ priority = 0
  /\ sigmask \in {{}, {"SIGUSR1"}}
  /\ sigmask0 = sigmask
  /\ governor = [c \in Cpus |-> "ondemand"]
  /\ openFds = {} /\ opened = 0 /\ closed = 0 /\ badClose = 0
  /\ RunIdle

\* setup_benchmark: the benchmark and its result, both sample arrays calloc'ed
Setup(w, t) ==
  /\ pc = "idle"
  /\ benchmark' = [warmup_iterations |-> w, timed_iterations |-> t]
  /\ results' = [samples |-> Zeros(t), cache_miss_rates |-> RZeros(t),
                 is_cycles |-> FALSE]
  /\ pc' = "configured"
  /\ UNCHANGED <<threadVars, fdVars, isoLocals, loopVars, samples,
                 cmr_is_results, wrote, variant, core, warnings, failed, pre, sigmask0, st, rk, hx>>

\* the head of a run macro: the locals and the malloc of samples.  The
\* identifier cache_miss_rates that BENCHMARK_FUNC_PINNED writes is not
\* declared by the macro; bound says whether, where the macro is expanded,
\* it names the result's array.
StartRun(v, c, bound) ==
  /\ pc = "configured"
  /\ variant' = v
  /\ core' = IF Pinned(v) THEN c ELSE 0
  /\ cmr_is_results' = (Counts(v) /\ bound)
  /\ samples' = Fresh(benchmark.timed_iterations)
  /\ pre' = [affinity |-> affinity, policy |-> policy, priority |-> priority,
             governor |-> governor]
  /\ pc' = IF Pinned(v) THEN "disable_scaling" ELSE "block"
  /\ UNCHANGED <<threadVars, fdVars, isoLocals, loopVars, benchmark, results,
                 wrote, warnings, failed, sigmask0, st, rk, hx>>

\* disable_cpu_scaling(core): system("echo performance > .../scaling_governor")
DisableCpuScaling(ok) ==
  /\ pc = "disable_scaling"
  /\ governor' = IF ok THEN [governor EXCEPT ![core] = "performance"] ELSE governor
  /\ pc' = "get_affinity"
  /\ failed' = IF ok THEN failed ELSE failed \cup {"scaling_governor"}
  /\ UNCHANGED <<affinity, policy, priority, sigmask, fdVars, isoLocals, loopVars,
                 dataVars, variant, core, warnings, pre, sigmask0, st, rk, hx>>

\* CPU_ZERO(&old_set); sched_getaffinity(0, ..., &old_set), result unchecked
SaveAffinity(ok) ==
  /\ pc = "get_affinity"
  /\ old_set' = IF ok THEN affinity ELSE {}
  /\ pc' = "set_affinity"
  /\ failed' = IF ok THEN failed ELSE failed \cup {"sched_getaffinity"}
  /\ UNCHANGED <<threadVars, fdVars, old_policy, old_sp, loopVars, dataVars,
                 variant, core, warnings, pre, sigmask0, st, rk, hx>>

\* sched_setaffinity to {core}; perror on failure
PinToCore(ok) ==
  /\ pc = "set_affinity"
  /\ IF ok /\ ValidMask({core})
     THEN affinity' = {core} /\ UNCHANGED warnings
     ELSE UNCHANGED affinity /\ warnings' = warnings \cup {"Failed to set affinity!"}
  /\ pc' = "get_sched"
  /\ failed' = IF ok /\ ValidMask({core}) THEN failed ELSE failed \cup {"sched_setaffinity"}
  /\ UNCHANGED <<policy, priority, sigmask, governor, fdVars, isoLocals, loopVars,
                 dataVars, variant, core, pre, sigmask0, st, rk, hx>>

\* old_policy = sched_getscheduler(0) (-1 on failure); sched_getparam(0, &old_sp)
\* (old_sp stays uninitialised on failure); neither result is checked
SaveScheduler(ok_policy, ok_param, garbage) ==
  /\ pc = "get_sched"
  /\ old_policy' = IF ok_policy THEN policy ELSE "-1"
  /\ old_sp' = IF ok_param THEN priority ELSE garbage
  /\ pc' = "set_sched"
  /\ failed' = failed \cup (IF ok_policy THEN {} ELSE {"sched_getscheduler"})
                      \cup (IF ok_param THEN {} ELSE {"sched_getparam"})
  /\ UNCHANGED <<threadVars, fdVars, old_set, loopVars, dataVars, variant, core,
                 warnings, pre, sigmask0, st, rk, hx>>

\* sched_setscheduler(0, SCHED_FIFO, {99}), result unchecked
SetRealtime(ok) ==
  /\ pc = "set_sched"
  /\ IF ok /\ ValidSched("SCHED_FIFO", RT_PRIORITY)
     THEN policy' = "SCHED_FIFO" /\ priority' = RT_PRIORITY
     ELSE UNCHANGED <<policy, priority>>
  /\ pc' = "block"
  /\ failed' = IF ok /\ ValidSched("SCHED_FIFO", RT_PRIORITY) THEN failed ELSE failed \cup {"sched_setscheduler"}
  /\ UNCHANGED <<affinity, sigmask, governor, fdVars, isoLocals, loopVars, dataVars,
                 variant, core, warnings, pre, sigmask0, st, rk, hx>>

\* block_all_signals_in_this_thread() before the loops
BlockSignals ==
  /\ pc = "block"
  /\ sigmask' = block_all_signals_in_this_thread(sigmask)
  /\ pc' = IF Cycles(variant) THEN "overhead" ELSE "warmup"
  /\ UNCHANGED <<affinity, policy, priority, governor, fdVars, isoLocals, loopVars,
                 dataVars, variant, core, warnings, failed, pre, sigmask0, st, rk, hx>>

\* cycle_count_overhead = get_cycle_count_overhead() (the cycle macros)
MeasureOverhead(s, d) ==
  /\ pc = "overhead"
  /\ cycle_count_overhead' = get_cycle_count_overhead(s, (s + d) % UINT64_MOD)
  /\ pc' = "warmup"
  /\ UNCHANGED <<threadVars, fdVars, isoLocals, idx, calls, counter, miss_rate, perf,
                 tstart, tend, dataVars, variant, core, warnings, failed, pre, sigmask0, st, rk, hx>>

\* a pass of the warmup loop that reads the timer before the call
Warmup_timed ==
  /\ pc = "warmup"
  /\ idx < benchmark.warmup_iterations
  /\ tstart' = 1
  /\ calls' = calls + 1
  /\ idx' = idx + 1
  /\ UNCHANGED <<threadVars, fdVars, isoLocals, counter, miss_rate, perf, tend,
                 cycle_count_overhead, dataVars, pc, variant, core, warnings, failed,
                 pre, sigmask0, st, rk, hx>>

\* one pass of the warmup loop: func_call, nothing measured
Warmup ==
  /\ pc = "warmup"
  /\ idx < benchmark.warmup_iterations
  /\ calls' = calls + 1
  /\ idx' = idx + 1
  /\ UNCHANGED <<threadVars, fdVars, isoLocals, counter, miss_rate, perf, tstart, tend,
                 cycle_count_overhead, dataVars, pc, variant, core, warnings, failed, pre,
                 sigmask0, st, rk, hx>>

\* the warmup loop ends, the timed loop starts at i = 0
WarmupDone ==
  /\ pc = "warmup"
  /\ idx >= benchmark.warmup_iterations
  /\ idx' = 0
  /\ pc' = "measure"
  /\ UNCHANGED <<threadVars, fdVars, isoLocals, calls, counter, miss_rate, perf, tstart,
                 tend, cycle_count_overhead, dataVars, variant, core, warnings, failed, pre,
                 sigmask0, st, rk, hx>>

\* BENCHMARK_FUNC_PINNED: cache_counter_t counter = start_l1_cache_miss_counter()
StartCounter(out) ==
  /\ pc = "measure"
  /\ idx < benchmark.timed_iterations
  /\ Counts(variant)
  /\ LET r == start_l1_cache_miss_counter(openFds, out) IN
       /\ counter' = r.counter
       /\ openFds' = r.fds
       /\ opened' = opened + r.opens
       /\ closed' = closed + r.closes
       /\ warnings' = warnings \cup r.warn
  /\ pc' = "timed_call"
  /\ failed' = IF out = "both" THEN failed ELSE failed \cup {"perf_event_open"}
  /\ UNCHANGED <<threadVars, badClose, isoLocals, idx, calls, miss_rate, perf, tstart,
                 tend, cycle_count_overhead, dataVars, variant, core, pre, sigmask0, st, rk, hx>>

\* the timed region of the wall-clock macros: clock_gettime, func_call,
\* clock_gettime
TimedCallClock(s, e) ==
  /\ \/ pc = "timed_call"
     \/ pc = "measure" /\ idx < benchmark.timed_iterations /\ ~Counts(variant)
  /\ ~Cycles(variant)
  /\ TsLeq(s, e)
  /\ tstart' = s /\ tend' = e
  /\ calls' = calls + 1
  /\ pc' = IF Counts(variant) THEN "stop_counter" ELSE "write"
  /\ UNCHANGED <<threadVars, fdVars, isoLocals, idx, counter, miss_rate, perf,
                 cycle_count_overhead, dataVars, variant, core, warnings, failed, pre,
                 sigmask0, st, rk, hx>>

\* the timed region of the cycle macros: get_cycles, func_call, get_cycles
TimedCallCycles(s, d) ==
  /\ pc = "measure" /\ idx < benchmark.timed_iterations
  /\ Cycles(variant)
  /\ tstart' = s /\ tend' = (s + d) % UINT64_MOD
  /\ calls' = calls + 1
  /\ pc' = "write"
  /\ UNCHANGED <<threadVars, fdVars, isoLocals, idx, counter, miss_rate, perf,
                 cycle_count_overhead, dataVars, variant, core, warnings, failed, pre,
                 sigmask0, st, rk, hx>>

\* BENCHMARK_FUNC_PINNED: double miss_rate = stop_l1_cache_miss_counter(&counter)
StopCounter(rd_refs, rd_miss) ==
  /\ pc = "stop_counter"
  /\ LET r == stop_l1_cache_miss_counter(counter, openFds, rd_refs, rd_miss) IN
       /\ miss_rate' = r.rate
       /\ perf' = [refs |-> r.refs, misses |-> r.misses]
       /\ counter' = r.counter
       /\ openFds' = r.fds
       /\ closed' = closed + r.closes
       /\ badClose' = badClose + r.bad
  /\ pc' = "write"
  /\ UNCHANGED <<threadVars, opened, isoLocals, idx, calls, tstart, tend,
                 cycle_count_overhead, dataVars, variant, core, warnings, failed, pre,
                 sigmask0, st, rk, hx>>

\* the tail of a timed iteration: samples[i] = ...; and, in
\* BENCHMARK_FUNC_PINNED only, cache_miss_rates[i] = miss_rate; then i++.
\* The iteration's readings are dead afterwards and are cleared.
WriteSample ==
  /\ pc = "write"
  /\ samples' = [samples EXCEPT ![idx + 1] =
                   IF Cycles(variant)
                   THEN CycleSample(tstart, tend, cycle_count_overhead)
                   ELSE WallclockSample(tstart, tend)]
  /\ IF Counts(variant) /\ cmr_is_results
     THEN /\ results' = [results EXCEPT !.cache_miss_rates[idx + 1] = miss_rate]
          /\ wrote' = [lat |-> wrote.lat \cup {idx}, cmr |-> wrote.cmr \cup {idx}]
     ELSE /\ UNCHANGED results
          /\ wrote' = [wrote EXCEPT !.lat = wrote.lat \cup {idx}]
  /\ idx' = idx + 1
  /\ tstart' = 0 /\ tend' = 0 /\ miss_rate' = RInt(0) /\ perf' = NoPerf
  /\ pc' = "measure"
  /\ UNCHANGED <<threadVars, fdVars, isoLocals, calls, counter,
                 cycle_count_overhead, benchmark, cmr_is_results, variant, core,
                 warnings, failed, pre, sigmask0, st, rk, hx>>

\* after the timed loop: benchmark->results->samples = samples; is_cycles = ...
Publish ==
  /\ pc = "measure"
  /\ idx >= benchmark.timed_iterations
  /\ results' = [results EXCEPT !.samples = samples,
                                !.is_cycles = Cycles(variant)]
  /\ pc' = IF Pinned(variant) THEN "enable_scaling" ELSE "unblock"
  /\ UNCHANGED <<threadVars, fdVars, isoLocals, loopVars, benchmark, samples,
                 cmr_is_results, wrote, variant, core, warnings, failed, pre, sigmask0, st, rk, hx>>

\* enable_cpu_scaling(core): system("echo ondemand > .../scaling_governor")
EnableCpuScaling(ok) ==
  /\ pc = "enable_scaling"
  /\ governor' = IF ok THEN [governor EXCEPT ![core] = "ondemand"] ELSE governor
  /\ pc' = "restore_affinity"
  /\ failed' = IF ok THEN failed ELSE failed \cup {"scaling_governor"}
  /\ UNCHANGED <<affinity, policy, priority, sigmask, fdVars, isoLocals, loopVars,
                 dataVars, variant, core, warnings, pre, sigmask0, st, rk, hx>>

\* sched_setaffinity(0, sizeof(cpu_set_t), &old_set), result unchecked
RestoreAffinity(ok) ==
  /\ pc = "restore_affinity"
  /\ affinity' = IF ok /\ ValidMask(old_set) THEN old_set \cap Cpus ELSE affinity
  /\ pc' = "restore_sched"
  /\ failed' = IF ok /\ ValidMask(old_set) THEN failed ELSE failed \cup {"sched_setaffinity"}
  /\ UNCHANGED <<policy, priority, sigmask, governor, fdVars, isoLocals, loopVars,
                 dataVars, variant, core, warnings, pre, sigmask0, st, rk, hx>>

\* sched_setscheduler(0, old_policy, &old_sp), result unchecked
RestoreScheduler(ok) ==
  /\ pc = "restore_sched"
  /\ IF ok /\ ValidSched(old_policy, old_sp)
     THEN policy' = old_policy /\ priority' = old_sp
     ELSE UNCHANGED <<policy, priority>>
  /\ pc' = "unblock"
  /\ failed' = IF ok /\ ValidSched(old_policy, old_sp) THEN failed ELSE failed \cup {"sched_setscheduler"}
  /\ UNCHANGED <<affinity, sigmask, governor, fdVars, isoLocals, loopVars, dataVars,
                 variant, core, warnings, pre, sigmask0, st, rk, hx>>

\* the last statement of every run macro
ExitSignals ==
  /\ pc = "unblock"
  /\ sigmask' = RunExitSigmask(sigmask)
  /\ pc' = "done"
  /\ UNCHANGED <<affinity, policy, priority, governor, fdVars, isoLocals, loopVars,
                 dataVars, variant, core, warnings, failed, pre, sigmask0, st, rk, hx>>

\* RUN_BENCHMARKS: the next benchmark of BENCHMARKS follows on the same
\* thread; the finished one's locals are gone, the thread's state stays
NextBenchmark ==
  /\ pc = "done"
  /\ pc' = "idle" /\ variant' = "none" /\ core' = 0
  /\ benchmark' = NoBenchmark /\ results' = NoResults /\ samples' = <<>>
  /\ cmr_is_results' = FALSE /\ wrote' = NoWrites
  /\ old_set' = {} /\ old_policy' = "none" /\ old_sp' = 0
  /\ idx' = 0 /\ calls' = 0 /\ counter' = NoCounter /\ miss_rate' = RInt(0)
  /\ perf' = NoPerf
  /\ tstart' = 0 /\ tend' = 0 /\ cycle_count_overhead' = 0
  /\ warnings' = {} /\ failed' = {} /\ pre' = NoPre
  /\ opened' = 0 /\ closed' = 0 /\ badClose' = 0
  /\ UNCHANGED <<threadVars, openFds, sigmask0, st, rk, hx>>

\* One step of a run.  Caps, Sets, Rests: the outcomes the capturing
\* (sched_getaffinity, sched_getscheduler, sched_getparam), the acquiring and
\* the restoring isolation calls may have; Clocks, Starts, Deltas, Counts_:
\* the readings the timers and the cache counters may return.
RunStep(Caps, Sets, Rests, Clocks, Starts, Deltas, Counts_) ==
  \/ \E w \in 0..MaxWarmup, t \in 0..MaxTimed : Setup(w, t)
  \/ \E v \in Variants, c \in PinCores, bound \in BOOLEAN : StartRun(v, c, bound)
  \/ \E ok \in Sets : DisableCpuScaling(ok)
  \/ \E ok \in Caps : SaveAffinity(ok)
  \/ \E ok \in Sets : PinToCore(ok)
  \/ \E okp \in Caps, oks \in Caps, g \in GarbagePriority : SaveScheduler(okp, oks, g)
  \/ \E ok \in Sets : SetRealtime(ok)
  \/ BlockSignals
  \/ \E s \in Starts, d \in Deltas : MeasureOverhead(s, d)
  \/ Warmup
  \/ WarmupDone
  \/ \E out \in {"both", "refs_fail", "miss_fail"} : StartCounter(out)
  \/ \E s \in Clocks, e \in Clocks : TimedCallClock(s, e)
  \/ \E s \in Starts, d \in Deltas : TimedCallCycles(s, d)
  \/ \E r \in Counts_, m \in Counts_ : StopCounter(r, m)
  \/ WriteSample
  \/ Publish
  \/ \E ok \in Rests : EnableCpuScaling(ok)
  \/ \E ok \in Rests : RestoreAffinity(ok)
  \/ \E ok \in Rests : RestoreScheduler(ok)
  \/ ExitSignals
  \/ NextBenchmark

StatIdle == st = [pc |-> "off"]
RankIdle == rk = [pc |-> "off"]
HarnessIdle == hx = [pc |-> "off", fault |-> "none"]

Init == RunInit /\ StatIdle /\ RankIdle /\ HarnessIdle

\* Spec: every isolation syscall may fail; one reading per timer and counter
Next == RunStep(BOOLEAN, BOOLEAN, BOOLEAN, {ZeroTs}, {0}, {1}, {1})
Spec == Init /\ [][Next]_vars

\* SpecCapture: only the calls that capture the prior affinity and scheduler
\* may fail; every acquiring and every restoring call is permitted
CaptureNext == RunStep(BOOLEAN, {TRUE}, {TRUE}, {ZeroTs}, {0}, {1}, {1})
SpecCapture == Init /\ [][CaptureNext]_vars

\* SpecLoop: the isolation syscalls succeed; the readings vary
LoopNext == RunStep({TRUE}, {TRUE}, {TRUE}, ClockReadings, CycleStarts, CycleDeltas,
                    CounterReadings)
SpecLoop == Init /\ [][LoopNext]_vars

\* ------------------------------------------------ include/stats.h (macros)
\* uint64_t and double data are both held as doubles [num, den] here; an
\* operator that computes in uint64_t says so
ToDoubles(data) == [k \in 1..Len(data) |-> RInt(data[k])]

\* double division by a size; the harness never divides when size is 0
NaN == [num |-> 0, den |-> 0]
RDivSize(a, size) == IF size = 0 THEN NaN ELSE RDivInt(a, size)

\* _sum of the mean macro: the elements data[0..size-1] added up in order
Sum(data, size) ==
  LET acc[k \in 0..size] == IF k = 0 THEN RInt(0) ELSE RAdd(acc[k - 1], data[k])
  IN acc[size]

\* mean(data, size): (size) > 0 ? _sum / (size) : 0
mean(data, size) ==
  IF size > 0 THEN RDivSize(Sum(data, size), size) ELSE RInt(0)

\* the inner loop of selection_sort: the index (1-based) of the first
\* smallest element of data[i..size]
SmallestIdx(data, i, size) ==
  LET sm[j \in i..size] ==
        IF j = i THEN i
        ELSE IF RLess(data[j], data[sm[j - 1]]) THEN j ELSE sm[j - 1]
  IN sm[size]

Swap(data, i, j) == [data EXCEPT ![i] = data[j], ![j] = data[i]]

\* selection_sort(data, size): sorts data[0..size-1] in place, ascending
selection_sort(data, size) ==
  LET pass[i \in 0..size] ==
        IF i = 0 THEN data
        ELSE Swap(pass[i - 1], i, SmallestIdx(pass[i - 1], i, size))
  IN pass[size]

\* (_upper + _lower) / 2 in the type of data[0]: an integer division for
\* uint64_t data, a double division for double data
HalfSum(lower, upper, integral) ==
  IF integral
  THEN RInt(((upper.num + lower.num) % UINT64_MOD) \div 2)
  ELSE RDivInt(RAdd(upper, lower), 2)

\* median(data, size, selection_sort): the value, and data as the in-place
\* sort leaves it
median(data, size, integral) ==
  IF size > 0
  THEN LET sorted == selection_sort(data, size)
           median_idx == size \div 2
       IN [result |-> IF size % 2 = 0
                      THEN HalfSum(sorted[median_idx],
                                   sorted[median_idx + 1], integral)
                      ELSE sorted[median_idx + 1],
           data |-> sorted]
  ELSE [result |-> RInt(0), data |-> data]

\* the value sqrt returns, written as its radicand
Sqrt(r) == [sqrt |-> r]

\* _sum_squared_diff of the stddev and var macros, around the mean m
SumSquaredDiff(data, size, m) ==
  LET acc[k \in 0..size] ==
        IF k = 0 THEN RInt(0)
        ELSE RAdd(acc[k - 1], RMul(RSub(data[k], m), RSub(data[k], m)))
  IN acc[size]

\* stddev(data, size)
stddev(data, size) ==
  IF size > 0
  THEN Sqrt(RDivSize(SumSquaredDiff(data, size, mean(data, size)), size))
  ELSE Sqrt(RInt(0))

\* ------------------------------------------------- src/stats.h (functions)
\* static uint64_t mean(uint64_t *data, size_t size)
src_mean(data, size) ==
  IF size = 0 THEN 0
  ELSE LET acc[k \in 0..size] ==
             IF k = 0 THEN 0 ELSE (acc[k - 1] + data[k]) % UINT64_MOD
       IN acc[size] \div size

\* void insertion_sort(uint64_t *data, size_t size): data[0..size-1] sorted
\* ascending in place, the array selection_sort leaves
insertion_sort(data, size) ==
  LET d == selection_sort(ToDoubles(data), size)
  IN [k \in 1..Len(data) |-> d[k].num]

\* data[i] for a 0-based i; past the end of the array the read is undefined
\* and yields beyond
ReadAt(data, i, beyond) == IF i < Len(data) THEN data[i + 1] ELSE beyond

\* static uint64_t median(uint64_t *data, size_t size, sort): the even
\* branch reads data[median_idx] and data[median_idx + 1]
src_median(data, size, beyond) ==
  IF size = 0 THEN [result |-> 0, data |-> data, oob |-> FALSE]
  ELSE LET sorted == insertion_sort(data, size)
           median_idx == size \div 2
       IN IF size % 2 = 0
          THEN [result |-> ((ReadAt(sorted, median_idx + 1, beyond)
                             + ReadAt(sorted, median_idx, beyond)) % UINT64_MOD) \div 2,
                data |-> sorted,
                oob |-> median_idx + 1 >= Len(sorted)]
          ELSE [result |-> sorted[median_idx + 1], data |-> sorted, oob |-> FALSE]

\* static double stddev(uint64_t *data, size_t size), around the uint64_t mean
src_stddev(data, size) ==
  IF size = 0 THEN Sqrt(RInt(0))
  ELSE Sqrt(RDivSize(SumSquaredDiff(ToDoubles(data), size,
                                    RInt(src_mean(data, size))), size))

\* ------------------------------------- data_processing.h: calculate_stats
\* the scan for min and max over data[1..size-1], from data[0] (first)
MinMax(data, size, first) ==
  LET acc[i \in 0..size] ==
        IF i <= 1 THEN [min |-> first, max |-> first]
        ELSE LET val == data[i]
                 p == acc[i - 1]
             IN IF RLess(p.max, val) THEN [p EXCEPT !.max = val]
                ELSE IF RLess(val, p.min) THEN [p EXCEPT !.min = val]
                ELSE p
  IN acc[size]

\* calculate_stats(results, size) on arrays smp (results->samples) and cmrs
\* (results->cache_miss_rates) of size elements.  samples[0]
\* and cmrs[0] are read whatever size is: with size 0 the reads are past the
\* end and yield beyond_t and beyond_c.
calculate_stats(smp, cmrs, size, beyond_t, beyond_c) ==
  LET med_t == median(ToDoubles(smp), size, TRUE)
      sorted_t == med_t.data
      med_c == median(cmrs, size, FALSE)
      sorted_c == med_c.data
      first_t == IF size > 0 THEN sorted_t[1] ELSE RInt(beyond_t)
      first_c == IF size > 0 THEN sorted_c[1] ELSE beyond_c
      mm_t == MinMax(sorted_t, size, first_t)
      mm_c == MinMax(sorted_c, size, first_c)
  IN [samples |-> [k \in 1..Len(smp) |-> sorted_t[k].num],
      cache_miss_rates |-> sorted_c,
      median_time |-> med_t.result,
      mean_time |-> mean(sorted_t, size),
      stddev_time |-> stddev(sorted_t, size),
      median_cmr |-> med_c.result,
      mean_cmr |-> mean(sorted_c, size),
      stddev_cmr |-> stddev(sorted_c, size),
      min_time |-> mm_t.min, max_time |-> mm_t.max,
      min_cmr |-> mm_c.min, max_cmr |-> mm_c.max,
      oob |-> size = 0]

\* what a read past the end of an array may yield
GarbageWords == {0, 9}
GarbageDoubles == {RInt(0), RInt(9)}

\* the sample sets the statistics are applied to
SampleValues == 0..MaxSample
RateValues == {RInt(0), RInt(25)}
SeqsOf(S, n) == [1..n -> S]

StatInput(size, smp, cmrs) ==
  [pc |-> "input", size |-> size, samples |-> smp, cmrs |-> cmrs,
   in_samples |-> smp, in_cmrs |-> cmrs]

\* calculate_stats(b->results, b->timed_iterations)
CalculateStats(beyond_t, beyond_c) ==
  /\ st.pc = "input"
  /\ LET r == calculate_stats(st.samples, st.cmrs, st.size, beyond_t, beyond_c)
     IN st' = [pc |-> "calculated", size |-> st.size,
               samples |-> r.samples, cmrs |-> r.cache_miss_rates,
               in_samples |-> st.in_samples, in_cmrs |-> st.in_cmrs,
               stats |-> r]
  /\ UNCHANGED <<runVars, rk, hx>>

\* calculate_stats with size 0 on arrays whose allocation of 0 bytes is NULL
\* (or is unmapped past its end): the read of samples[0] faults
CalculateStatsFault ==
  /\ st.pc = "input"
  /\ st.size = 0
  /\ st' = [st EXCEPT !.pc = "crashed"]
  /\ UNCHANGED <<runVars, rk, hx>>

\* src/stats.h: median, mean and stddev of the latency samples
SrcStats(beyond) ==
  /\ st.pc = "input"
  /\ LET m == src_median(st.samples, st.size, beyond)
     IN st' = [pc |-> "src_done", size |-> st.size,
               samples |-> m.data, cmrs |-> st.cmrs,
               in_samples |-> st.in_samples, in_cmrs |-> st.in_cmrs,
               stats |-> [median |-> m.result,
                          mean |-> src_mean(m.data, st.size),
                          stddev |-> src_stddev(m.data, st.size),
                          oob |-> m.oob]]
  /\ UNCHANGED <<runVars, rk, hx>>

StatNext ==
  \/ \E bt \in GarbageWords, bc \in GarbageDoubles : CalculateStats(bt, bc)
  \/ CalculateStatsFault
  \/ \E b \in GarbageWords : SrcStats(b)

\* the statistics applied to a finished run's arrays; the thread is idle
StatInit ==
  /\ RunInit /\ sigmask = {} /\ RankIdle /\ HarnessIdle
  /\ \E n \in 0..MaxLen :
       \E s \in SeqsOf(SampleValues, n), c \in SeqsOf(RateValues, n) :
         st = StatInput(n, s, c)

SpecStats == StatInit /\ [][StatNext]_vars

\* ------------------------------------ include/data_processing.h: the ranking
\* a benchmark_t* of the array handed to print_results: NULL, or a benchmark
\* with its flags and its results pointer (NULL, or statistics with a median)
NullEntry ==
  [null |-> TRUE, is_baseline |-> FALSE, is_valid |-> FALSE,
   has_results |-> FALSE, median_time |-> 0]
NoResultsEntries ==
  {[null |-> FALSE, is_baseline |-> b, is_valid |-> v,
    has_results |-> FALSE, median_time |-> 0] : b \in BOOLEAN, v \in BOOLEAN}
ResultsEntries ==
  {[null |-> FALSE, is_baseline |-> b, is_valid |-> v,
    has_results |-> TRUE, median_time |-> m] :
     b \in BOOLEAN, v \in BOOLEAN, m \in 0..MaxMedian}
Entries == {NullEntry} \cup NoResultsEntries \cup ResultsEntries

\* double division of two medians: x/0 is inf, 0/0 is NaN
Inf == [num |-> 1, den |-> 0]
DDiv(a, b) == IF b = 0 THEN (IF a = 0 THEN NaN ELSE Inf) ELSE Rat(a, b)
\* a comparison that also takes a relative_performance of exactly 1.0
BelowOne_orEqual(r) == r.den # 0 /\ r.num <= r.den
\* relative_performance < 1.0; false for inf and NaN
BelowOne(r) == r.den # 0 /\ r.num < r.den
\* 1.0 / relative_performance for a relative_performance below 1.0
Reciprocal(r) == IF r.num = 0 THEN Inf ELSE Rat(r.den, r.num)

ErrorNoResults == [kind |-> "error", text |-> "Error: No benchmark results to display"]
ErrorNoBaseline == [kind |-> "error", text |-> "Error: No baseline benchmark found"]

\* a baseline search that takes the first benchmark present, flagged or not
RECURSIVE FindBaseline_unflagged(_, _, _)
FindBaseline_unflagged(benchmarks, count, i) ==
  IF i > count THEN 0
  ELSE IF ~benchmarks[i].null THEN i
  ELSE FindBaseline_unflagged(benchmarks, count, i + 1)

\* the loop "Find the baseline benchmark" from index i on: the position of
\* the first non-NULL entry flagged is_baseline (the loop breaks there),
\* 0 for baseline == NULL
RECURSIVE FindBaseline(_, _, _)
FindBaseline(benchmarks, count, i) ==
  IF i > count THEN 0
  ELSE IF ~benchmarks[i].null /\ benchmarks[i].is_baseline THEN i
  ELSE FindBaseline(benchmarks, count, i + 1)

\* an exchange sort that gives up the row of i at the first pair it cannot
\* compare (break where the source has continue)
RECURSIVE SortIndices_break(_, _, _, _, _)
SortIndices_break(benchmarks, count, indices, i, j) ==
  IF i >= count THEN indices
  ELSE IF j > count THEN SortIndices_break(benchmarks, count, indices, i + 1, i + 2)
  ELSE
    LET bench_i == benchmarks[indices[i]]
        bench_j == benchmarks[indices[j]]
    IN IF bench_i.null \/ bench_j.null \/ ~bench_i.has_results \/ ~bench_j.has_results
       THEN SortIndices_break(benchmarks, count, indices, i + 1, i + 2)
       ELSE IF bench_j.median_time > bench_i.median_time
       THEN SortIndices_break(benchmarks, count,
                              [indices EXCEPT ![i] = indices[j], ![j] = indices[i]],
                              i, j + 1)
       ELSE SortIndices_break(benchmarks, count, indices, i, j + 1)

\* the exchange sort of the indices, from the pair (i, j) on; a pair with a
\* NULL benchmark or a NULL results pointer is passed over
RECURSIVE SortIndices(_, _, _, _, _)
SortIndices(benchmarks, count, indices, i, j) ==
  IF i >= count THEN indices
  ELSE IF j > count THEN SortIndices(benchmarks, count, indices, i + 1, i + 2)
  ELSE
    LET bench_i == benchmarks[indices[i]]
        bench_j == benchmarks[indices[j]]
    IN IF bench_i.null \/ bench_j.null \/ ~bench_i.has_results \/ ~bench_j.has_results
       THEN SortIndices(benchmarks, count, indices, i, j + 1)
       ELSE IF bench_j.median_time > bench_i.median_time
       THEN SortIndices(benchmarks, count,
                        [indices EXCEPT ![i] = indices[j], ![j] = indices[i]],
                        i, j + 1)
       ELSE SortIndices(benchmarks, count, indices, i, j + 1)

\* the line printed for the benchmark at position k of the array
EntryLine(benchmarks, k, baseline) ==
  LET bench == benchmarks[k]
      rel == IF bench.is_baseline THEN RInt(1)
             ELSE DDiv(bench.median_time, benchmarks[baseline].median_time)
      faster == ~bench.is_baseline /\ BelowOne(rel)
  IN [kind |-> "entry", bench |-> k, median_time |-> bench.median_time,
      relative_performance |-> rel,
      faster |-> faster,
      speed_increase |-> IF faster THEN Reciprocal(rel) ELSE RInt(0),
      label |-> IF bench.is_baseline THEN " - baseline" ELSE ""]

\* print_results(results, count), called on main's array: the lines it prints
print_results(benchmarks_null, benchmarks, count) ==
  IF benchmarks_null \/ count = 0 THEN <<ErrorNoResults>>
  ELSE
    LET baseline == FindBaseline(benchmarks, count, 1) IN
    IF baseline = 0 \/ ~benchmarks[baseline].has_results THEN <<ErrorNoBaseline>>
    ELSE
      LET indices == SortIndices(benchmarks, count, [k \in 1..count |-> k], 1, 2)
          Printed(k) == LET bench == benchmarks[indices[k]]
                        IN ~bench.null /\ bench.has_results /\ bench.is_valid
          shown == SelectSeq([k \in 1..count |-> k], Printed)
      IN <<[kind |-> "header", baseline |-> baseline]>>
         \o [k \in 1..Len(shown) |-> EntryLine(benchmarks, indices[shown[k]], baseline)]
         \o <<[kind |-> "footer"]>>

\* a call of print_results: a NULL array, or an array of count entries
RankInput(benchmarks_null, count, benchmarks) ==
  [pc |-> "input", results_null |-> benchmarks_null, count |-> count,
   results |-> benchmarks]

\* main: print_results(benchmarks, benchmark_count), and
\* PRINT_RESULTS_GROUP(print_invalid): print_results(_benchmark_array,
\* BENCHMARK_COUNT, print_invalid). print_results is declared with (results,
\* count) only: nothing in it reads the caller's print_invalid
PrintResults(print_invalid) ==
  /\ rk.pc = "input"
  /\ rk' = [pc |-> "returned", results_null |-> rk.results_null,
            count |-> rk.count, results |-> rk.results,
            print_invalid |-> print_invalid,
            out |-> print_results(rk.results_null, rk.results, rk.count)]
  /\ UNCHANGED <<runVars, st, hx>>

RankNext == \E print_invalid \in BOOLEAN : PrintResults(print_invalid)

\* the ranking of finished benchmarks; the thread is idle
RankInit ==
  /\ RunInit /\ sigmask = {} /\ StatIdle /\ HarnessIdle
  /\ \/ rk = RankInput(TRUE, 1, <<>>)
     \/ \E n \in 0..MaxEntries : \E r \in SeqsOf(Entries, n) :
          rk = RankInput(FALSE, n, r)

SpecRank == RankInit /\ [][RankNext]_vars

\* ------------------------------- utils.h: the registered benchmarks
\* the bytes of an output buffer and of a ground-truth buffer
Bytes == 0..1
BuffersOf(n) == [1..n -> Bytes]
ZeroBuffer(n) == [k \in 1..n |-> 0]
\* a pointer to a buffer: NULL, or the buffer's bytes
NullPtr == [null |-> TRUE, bytes |-> <<>>]
PtrTo(b) == [null |-> FALSE, bytes |-> b]

\* memcmp(gt, result, size): the sign of the first differing byte among the
\* first size bytes, from byte k (1-based) on
RECURSIVE memcmp(_, _, _, _)
memcmp(a, b, size, k) ==
  IF k > size THEN 0
  ELSE IF a[k] < b[k] THEN -1
  ELSE IF a[k] > b[k] THEN 1
  ELSE memcmp(a, b, size, k + 1)

\* a comparison that stops after the first byte
validate_result_firstbyte(bench, result, gt, size) ==
  [bench EXCEPT !.is_valid = (memcmp(gt, result, IF size > 0 THEN 1 ELSE 0, 1) = 0)]

\* validate_result(benchmark, result, gt, size): the benchmark it leaves
validate_result(bench, result, gt, size) ==
  [bench EXCEPT !.is_valid = (memcmp(gt, result, size, 1) = 0)]

\* setup_benchmark(name, warmup_iterations, timed_iterations, is_baseline,
\* validate, output_buffer, size), with the arrays as calloc leaves them
setup_benchmark(name, warmup_iterations, timed_iterations, is_baseline, validate, size) ==
  [name |-> name,
   warmup_iterations |-> warmup_iterations,
   timed_iterations |-> timed_iterations,
   is_baseline |-> is_baseline,
   validate |-> validate,
   is_valid |-> FALSE,
   is_cycles |-> FALSE,
   samples |-> Zeros(timed_iterations),
   cache_miss_rates |-> RZeros(timed_iterations),
   gt |-> IF is_baseline THEN PtrTo(ZeroBuffer(size)) ELSE NullPtr]

\* what one BENCHMARK_TIME / BENCHMARK_CYCLES entry of BENCHMARKS is given and
\* what its run measures: the arguments, the bytes the function writes to the
\* output buffer, and the latency and miss rate of each timed iteration
\* output_null says that NULL is passed for output_buffer.
Registrations(Names, Flags, Units, Nulls, Outputs, Latencies, Rates) ==
  [name : Names, is_baseline : Flags, validate : Flags, is_cycles : Units,
   output_null : Nulls, produced : Outputs, samples : Latencies, cmrs : Rates]

\* the heap blocks of the k-th benchmark set up: what setup_benchmark
\* allocates (calloc of 0 bytes hands out a block as well)
setup_allocs(k, is_baseline, output_null) ==
  {[of |-> k, kind |-> c] :
     c \in {"benchmark", "results", "samples", "cache_miss_rates"}
            \cup (IF is_baseline THEN {"gt"} ELSE {})
            \cup (IF output_null THEN {"output_buffer"} ELSE {})}
\* uint64_t *samples = malloc(...) of the four run macros of bench.h
run_allocs(k) == {[of |-> k, kind |-> "run_samples"]}

\* free(p) on a heap [live, freed, twice]
Free(mem, blk) ==
  IF blk \in mem.live
  THEN [mem EXCEPT !.live = @ \ {blk}, !.freed = @ \cup {blk}]
  ELSE [mem EXCEPT !.twice = @ \cup {blk}]
NoHeap == [live |-> {}, freed |-> {}, twice |-> {}]

\* cleanup_benchmark(benchmark, free_output_buffer) on the k-th benchmark:
\* results->samples is the array the run macro stored there, results->gt of
\* a baseline the buffer its setup allocated
cleanup_benchmark(mem, k, bench, free_output_buffer, output_null) ==
  LET m1 == IF free_output_buffer /\ output_null
            THEN Free(mem, [of |-> k, kind |-> "output_buffer"]) ELSE mem
      m2 == IF bench.is_baseline THEN Free(m1, [of |-> k, kind |-> "gt"]) ELSE m1
      m3 == Free(m2, [of |-> k, kind |-> "run_samples"])
      m4 == Free(m3, [of |-> k, kind |-> "cache_miss_rates"])
      m5 == Free(m4, [of |-> k, kind |-> "results"])
  IN Free(m5, [of |-> k, kind |-> "benchmark"])

RECURSIVE cleanup_all(_, _, _, _)
cleanup_all(mem, arr, nulls, i) ==
  IF i > Len(arr) THEN mem
  ELSE cleanup_all(cleanup_benchmark(mem, i, arr[i], FALSE, nulls[i]), arr, nulls, i + 1)

\* the state after a step whose behaviour C leaves undefined; nothing is
\* modelled beyond it
Undefined(what) == [hx EXCEPT !.pc = "undefined", !.fault = what]

HarnessStart(count, size) ==
  [pc |-> "run", count |-> count, size |-> size, arr |-> <<>>,
   gt |-> NullPtr, output_buffer |-> ZeroBuffer(size),
   produced |-> <<>>, measured |-> <<>>,
   stats_printed |-> FALSE,
   validated |-> [bench |-> 0],
   save |-> [called |-> FALSE], group |-> [called |-> FALSE],
   nulls |-> <<>>, heap |-> NoHeap, released |-> FALSE, fault |-> "none"]

\* BENCHMARK_TIME(name, is_baseline, validate, output_buffer, size, func) and
\* its three siblings: set the benchmark up, wire the ground-truth pointer,
\* run it, clear the output buffer and append it to _benchmark_array
\* (_benchmark_idx is the length of arr).  memset(NULL, 0, size) and a write
\* past the end of _benchmark_array are undefined.
RunBenchmark(reg) ==
  /\ hx.pc = "run"
  /\ LET timed == Len(reg.samples)
         k == Len(hx.arr) + 1
         b0 == setup_benchmark(reg.name, MaxWarmup, timed, reg.is_baseline,
                               reg.validate, hx.size)
         b1 == IF reg.is_baseline THEN b0 ELSE [b0 EXCEPT !.gt = hx.gt]
         b2 == [b1 EXCEPT !.samples = reg.samples,
                          !.cache_miss_rates = reg.cmrs,
                          !.is_cycles = reg.is_cycles]
     IN hx' = IF reg.output_null /\ hx.size > 0
              THEN Undefined("memset(NULL)")
              ELSE IF Len(hx.arr) >= hx.count
              THEN Undefined("_benchmark_array overflow")
              ELSE
               [hx EXCEPT !.arr = Append(@, b2),
                          !.gt = IF reg.is_baseline THEN b0.gt ELSE @,
                          !.output_buffer = ZeroBuffer(hx.size),
                          !.produced = Append(@, reg.produced),
                          !.measured = Append(@, [samples |-> reg.samples,
                                                  cmrs |-> reg.cmrs]),
                          !.nulls = Append(@, reg.output_null),
                          !.heap.live = @ \cup setup_allocs(k, reg.is_baseline,
                                                            reg.output_null)
                                          \cup run_allocs(k)]
  /\ UNCHANGED <<runVars, st, rk>>

\* a caller's validate_result(_benchmark_array[i], result, gt, size); the
\* call is remembered by its length, by the number of bytes in which the two
\* buffers differ over that length, and by the array it found
ValidateResult(i, result, gt, size) ==
  /\ hx.pc = "run"
  /\ i \in 1..Len(hx.arr)
  /\ hx' = [hx EXCEPT !.arr[i] = validate_result(@, result, gt, size),
                      !.validated =
                         [bench |-> i, size |-> size,
                          differing |-> Cardinality({k \in 1..size : result[k] # gt[k]}),
                          before |-> hx.arr]]
  /\ UNCHANGED <<runVars, st, rk>>

\* what reading the BENCHMARK_COUNT slots of _benchmark_array meets: a slot
\* no run has filled is NULL, and after CLEANUP every slot dangles
SlotFault ==
  IF Len(hx.arr) < hx.count THEN "NULL benchmark"
  ELSE IF hx.released THEN "freed benchmark"
  ELSE "none"

\* PRINT_RESULTS_INDIVIDUAL(): calculate_stats on every registered benchmark
PrintResultsIndividual ==
  /\ hx.pc = "run"
  /\ ~hx.stats_printed
  /\ hx' = IF SlotFault # "none" THEN Undefined(SlotFault)
     ELSE [hx EXCEPT
       !.stats_printed = TRUE,
       !.arr = [i \in 1..Len(hx.arr) |->
                  LET b == hx.arr[i]
                      r == calculate_stats(b.samples, b.cache_miss_rates,
                                           b.timed_iterations, 0, RInt(0))
                  IN [b EXCEPT !.samples = r.samples,
                               !.cache_miss_rates = r.cache_miss_rates]]]
  /\ UNCHANGED <<runVars, st, rk>>

\* PRINT_RESULTS_GROUP(print_invalid): print_results on _benchmark_array.  A
\* slot no run has filled is NULL, which print_results skips; median_time is
\* what calculate_stats stored, or the content malloc left in the result
PrintResultsGroup(print_invalid, garbage) ==
  /\ hx.pc = "run"
  /\ ~hx.group.called
  /\ LET Slot(i) ==
           IF i > Len(hx.arr) THEN NullEntry
           ELSE LET b == hx.arr[i] IN
             [null |-> FALSE, is_baseline |-> b.is_baseline, is_valid |-> b.is_valid,
              has_results |-> TRUE,
              median_time |->
                IF hx.stats_printed
                THEN calculate_stats(b.samples, b.cache_miss_rates,
                                     b.timed_iterations, 0, RInt(0)).median_time.num
                ELSE garbage]
         slots == [i \in 1..hx.count |-> Slot(i)]
     IN hx' = IF hx.released THEN Undefined("freed benchmark")
              ELSE [hx EXCEPT !.group = [called |-> TRUE,
                                         print_invalid |-> print_invalid,
                                         out |-> print_results(FALSE, slots, hx.count)]]
  /\ UNCHANGED <<runVars, st, rk>>

\* CLEANUP(): cleanup_benchmark(_benchmark_array[i], false) on every slot
Cleanup ==
  /\ hx.pc = "run"
  /\ hx' = IF SlotFault # "none" THEN Undefined(SlotFault)
     ELSE [hx EXCEPT !.released = TRUE,
                     !.heap = cleanup_all(@, hx.arr, hx.nulls, 1)]
  /\ UNCHANGED <<runVars, st, rk>>

\* ------------------------------------ include/data_processing.h: to_csv
\* strings are sequences of characters
PathPrefix == <<"/", "b", "e", "n", "c", "h", "m", "a", "r", "k", "_">>
PathSuffix == <<".", "c", "s", "v">>

\* the copy loop of to_csv: name with every ' ' replaced by '_'
Sanitize(name) == [cidx \in 1..Len(name) |-> IF name[cidx] = " " THEN "_" ELSE name[cidx]]

\* snprintf(path, sizeof(path), "%s/benchmark_%s.csv", dir, filename): the
\* text it would write in full; its length is snprintf's return value
CsvPath(dir, filename) == dir \o PathPrefix \o filename \o PathSuffix

\* "%llu": the decimal digits of n, most significant first
RECURSIVE FormatLlu(_)
FormatLlu(n) == IF n < 10 THEN <<n>> ELSE Append(FormatLlu(n \div 10), n % 10)

\* x * 100 rounded to the nearest integer, ties to even, for x >= 0
RoundHundredths(x) ==
  LET n == x.num * 100
      q == n \div x.den
      rem == n % x.den
  IN IF 2 * rem > x.den THEN q + 1
     ELSE IF 2 * rem = x.den THEN q + (q % 2)
     ELSE q

\* "%0.2f": the digits before the point and the two digits after it
FormatF2(x) ==
  LET h == RoundHundredths(x)
  IN [whole |-> FormatLlu(h \div 100), frac |-> <<(h % 100) \div 10, h % 10>>]

\* the header block and the rows fprintf writes for one benchmark
CsvHeader(bench) ==
  [name |-> bench.name,
   timing_format |-> IF bench.is_cycles THEN "cycles" ELSE "microseconds",
   is_valid |-> IF bench.validate
                THEN (IF bench.is_valid THEN "Yes" ELSE "No")
                ELSE "Not Validated",
   warmup_runs |-> FormatLlu(bench.warmup_iterations),
   timed_runs |-> FormatLlu(bench.timed_iterations)]

CsvRows(bench) ==
  [i \in 1..bench.timed_iterations |->
     [timing |-> FormatLlu(bench.samples[i]),
      cache_miss_rate |-> FormatF2(bench.cache_miss_rates[i])]]

\* to_csv(benchmarks, num, dir) from benchmark i on.  fail names the call of
\* the environment that fails, if any (at = 0: none): the malloc of the
\* filename or the fopen of the path of benchmark fail.at.  files are the
\* files on disk, leaked the filename buffers never freed.
RECURSIVE to_csv(_, _, _, _, _, _, _)
to_csv(benchmarks, num, dir, fail, i, files, leaked) ==
  IF i > num THEN [ret |-> TRUE, files |-> files, leaked |-> leaked]
  ELSE
    LET bench == benchmarks[i]
        filename == Sanitize(bench.name)
        path == CsvPath(dir, filename)
    IN IF fail.at = i /\ fail.kind = "malloc"
       THEN [ret |-> FALSE, files |-> files, leaked |-> leaked]
       ELSE IF Len(path) >= PATH_SIZE
       THEN [ret |-> FALSE, files |-> files, leaked |-> leaked]
       ELSE IF fail.at = i /\ fail.kind = "fopen"
       THEN [ret |-> FALSE, files |-> files, leaked |-> leaked + 1]
       ELSE to_csv(benchmarks, num, dir, fail, i + 1,
                   {f \in files : f.path # path}
                     \cup {[path |-> path, header |-> CsvHeader(bench),
                            rows |-> CsvRows(bench)]},
                   leaked)

Failures(num) == [at : 0..num, kind : {"malloc", "fopen"}]

\* SAVE(dir): to_csv(_benchmark_array, BENCHMARK_COUNT, dir)
Save(dir, fail) ==
  /\ hx.pc = "run"
  /\ ~hx.save.called
  /\ LET r == to_csv(hx.arr, hx.count, dir, fail, 1, {}, 0)
     IN hx' = IF SlotFault # "none" THEN Undefined(SlotFault) ELSE
              [hx EXCEPT !.save = [called |-> TRUE, dir |-> dir, fail |-> fail,
                                    exported |-> hx.arr,
                                    ret |-> r.ret, files |-> r.files,
                                    leaked |-> r.leaked]]
  /\ UNCHANGED <<runVars, st, rk>>

\* the directories SAVE is given: a short one, and one so long that no path
\* fits char path[256]
ShortDir == <<"o">>
LongDir == [k \in 1..PATH_SIZE |-> "d"]
Dirs == {ShortDir, LongDir}

\* ------------------------------------------- the harness specifications
NoFailure == [at |-> 0, kind |-> "fopen"]

\* SpecValidate: callers validating registered benchmarks against buffers of
\* every content and length
ValidateRegs ==
  Registrations({<<"a">>, <<"b">>}, {TRUE}, {FALSE}, {FALSE}, {ZeroBuffer(MaxBuf)}, {<<>>}, {<<>>})

ValidateNext ==
  \/ \E reg \in ValidateRegs : RunBenchmark(reg)
  \/ \E i \in 1..MaxBench, size \in 0..MaxBuf :
       \E result \in BuffersOf(MaxBuf), gt \in BuffersOf(MaxBuf) :
         ValidateResult(i, result, gt, size)

HarnessInit ==
  /\ RunInit /\ sigmask = {} /\ StatIdle /\ RankIdle
  /\ hx \in {HarnessStart(count, MaxBuf) : count \in 1..MaxBench}

SpecValidate == HarnessInit /\ [][ValidateNext]_vars

\* SpecHarness: RUN_BENCHMARKS(), PRINT_RESULTS_INDIVIDUAL() and SAVE(dir) as
\* utils.h defines them, over every choice of flags and outputs
HarnessRegs ==
  Registrations({<<"a">>, <<"b">>}, BOOLEAN, {FALSE}, {FALSE}, BuffersOf(MaxBuf),
                {Zeros(MaxTimed)}, {RZeros(MaxTimed)})

HarnessNext ==
  \/ \E reg \in HarnessRegs : RunBenchmark(reg)
  \/ PrintResultsIndividual
  \/ Save(ShortDir, NoFailure)

SpecHarness == HarnessInit /\ [][HarnessNext]_vars

\* SpecExport: the same macros over measured samples, names, directories and
\* failures of the calls to_csv makes
ExportNames == {<<"a", " ", "b">>, <<"a", "_", "b">>}
ExportLatencies == SeqsOf(1..MaxSample, MaxTimed)
ExportRates == SeqsOf({RInt(0), Rat(100, 3)}, MaxTimed)
ExportRegs ==
  Registrations(ExportNames, {FALSE}, BOOLEAN, {FALSE}, {ZeroBuffer(MaxBuf)},
                ExportLatencies, ExportRates)

ExportNext ==
  \/ \E reg \in ExportRegs : RunBenchmark(reg)
  \/ PrintResultsIndividual
  \/ \E dir \in Dirs, fail \in Failures(MaxBench) : Save(dir, fail)

SpecExport == HarnessInit /\ [][ExportNext]_vars

\* SpecLifecycle: the macros of utils.h in every order a caller may write
\* them, CLEANUP() included, with and without a caller's output buffer
LifeRegs ==
  Registrations({<<"a">>}, BOOLEAN, {FALSE}, BOOLEAN, {ZeroBuffer(hx.size)},
                {Zeros(MaxTimed)}, {RZeros(MaxTimed)})

LifeNext ==
  \/ \E reg \in LifeRegs : RunBenchmark(reg)
  \/ PrintResultsIndividual
  \/ Save(ShortDir, NoFailure)
  \/ \E print_invalid \in BOOLEAN, garbage \in GarbageWords :
       PrintResultsGroup(print_invalid, garbage)
  \/ Cleanup

LifeInit ==
  /\ RunInit /\ sigmask = {} /\ StatIdle /\ RankIdle
  /\ hx \in {HarnessStart(count, size) : count \in 1..MaxBench, size \in {0, MaxBuf}}

SpecLifecycle == LifeInit /\ [][LifeNext]_vars

\* ------------------------------------------------------- claims on the run

\* C1: when a run macro finishes, the thread's CPU affinity mask and its
\* scheduler policy and priority equal the values they had immediately before
\* the run started, whatever affinity and scheduler syscalls failed.
C1_IsolationRestored ==
  pc = "done" =>
    /\ affinity = pre.affinity
    /\ policy = pre.policy
    /\ priority = pre.priority

\* C2: the signals blocked at the start of a run are unblocked before the run
\* macro returns: after any sequence of runs the thread's signal mask equals
\* the mask it had before the first run.
C2_SignalMaskRestored == pc = "done" => sigmask = sigmask0

\* C3: once stop_l1_cache_miss_counter has returned, no descriptor opened in
\* the iteration is open, every opened descriptor has been closed exactly once
\* (no close of a descriptor that is not open), and at most two descriptors
\* are open at any moment, for every outcome of the two perf_event_open calls.
C3_CountersClosed ==
  /\ Cardinality(openFds) <= 2
  /\ badClose = 0
  /\ closed <= opened
  /\ openFds = {counter.refs_fd, counter.miss_fd} \ {NO_FD}
  /\ pc \notin {"timed_call", "stop_counter"} =>
       openFds = {} /\ closed = opened

\* a second iteration's stop has returned, after one iteration whose second
\* perf_event_open failed and one whose opens both succeeded
C3_Witness ==
  /\ pc = "write" /\ idx = 1 /\ variant = "PINNED"
  /\ opened = 3 /\ closed = 3 /\ openFds = {}
  /\ warnings = {"perf_event_open (L1D misses)"}

\* C4: in each of the four run variants, after the run every index
\* 0..timed_iterations-1 of both the latency sequence and the miss-rate
\* sequence held by the result was written in that run, and no other index.
C4_BothSequencesWritten ==
  pc = "done" =>
    /\ wrote.lat = 0..(benchmark.timed_iterations - 1)
    /\ wrote.cmr = 0..(benchmark.timed_iterations - 1)

\* C8: for all counter readings stop_l1_cache_miss_counter can obtain, with
\* either counter open or not, the miss rate it returns lies in [0,100] and
\* is exactly 0 whenever accesses is 0.
C8_MissRateInRange ==
  (pc = "write" /\ Counts(variant)) =>
    /\ RLeq(RInt(0), miss_rate)
    /\ RLeq(miss_rate, RInt(100))
    /\ perf.refs = 0 => miss_rate = RInt(0)

\* ------------------------------------------------ claims on the statistics
\* the exact statistics of a sequence of doubles, by counting and summing
Range(data) == {data[k] : k \in 1..Len(data)}
CountLess(data, v) == Cardinality({k \in 1..Len(data) : RLess(data[k], v)})
CountLeq(data, v) == Cardinality({k \in 1..Len(data) : RLeq(data[k], v)})
\* the k-th smallest element, k in 1..Len(data)
Kth(data, k) ==
  CHOOSE v \in Range(data) : CountLess(data, v) < k /\ k <= CountLeq(data, v)

ExactMedian(data) ==
  LET n == Len(data) IN
  IF n % 2 = 1 THEN Kth(data, n \div 2 + 1)
  ELSE RDivInt(RAdd(Kth(data, n \div 2), Kth(data, n \div 2 + 1)), 2)

RECURSIVE ExactSum(_)
ExactSum(data) ==
  IF data = <<>> THEN RInt(0) ELSE RAdd(Head(data), ExactSum(Tail(data)))

ExactMean(data) == RDivInt(ExactSum(data), Len(data))

ExactVariance(data) ==
  LET m == ExactMean(data)
      sq == [k \in 1..Len(data) |-> RMul(RSub(data[k], m), RSub(data[k], m))]
  IN RDivInt(ExactSum(sq), Len(data))

\* C5: for every non-empty sequence of length n, every median implementation
\* (the median macro as calculate_stats applies it to the latencies and to
\* the miss rates, and median() of src/stats.h) returns sorted[n/2] for odd n
\* and the exact average of sorted[n/2 - 1] and sorted[n/2] for even n,
\* reading only indices 0..n-1.
C5_MedianExact ==
  /\ (st.pc = "calculated" /\ st.size > 0) =>
       /\ st.stats.median_time = ExactMedian(ToDoubles(st.in_samples))
       /\ st.stats.median_cmr = ExactMedian(st.in_cmrs)
       /\ ~st.stats.oob
  /\ (st.pc = "src_done" /\ st.size > 0) =>
       /\ RInt(st.stats.median) = ExactMedian(ToDoubles(st.in_samples))
       /\ ~st.stats.oob

\* C6: calculate_stats with size 0 yields median, mean, stddev, min and max
\* all zero for both sequences, divides by nothing, reads no element of
\* either sequence and does not crash.
C6_ZeroSizeAllZero ==
  (st.pc \in {"calculated", "crashed"} /\ st.size = 0) =>
    /\ st.pc = "calculated"
    /\ ~st.stats.oob
    /\ st.stats.median_time = RInt(0) /\ st.stats.median_cmr = RInt(0)
    /\ st.stats.mean_time = RInt(0) /\ st.stats.mean_cmr = RInt(0)
    /\ st.stats.stddev_time = Sqrt(RInt(0)) /\ st.stats.stddev_cmr = Sqrt(RInt(0))
    /\ st.stats.min_time = RInt(0) /\ st.stats.max_time = RInt(0)
    /\ st.stats.min_cmr = RInt(0) /\ st.stats.max_cmr = RInt(0)

\* C7: for every non-empty sequence of N samples, mean is the exact average
\* sum/N and stddev the square root of the sum of squared deviations from
\* that mean divided by N, in include/stats.h and in src/stats.h alike.
C7_MeanStddevExact ==
  /\ (st.pc = "calculated" /\ st.size > 0) =>
       /\ st.stats.mean_time = ExactMean(ToDoubles(st.in_samples))
       /\ st.stats.stddev_time = Sqrt(ExactVariance(ToDoubles(st.in_samples)))
       /\ st.stats.mean_cmr = ExactMean(st.in_cmrs)
       /\ st.stats.stddev_cmr = Sqrt(ExactVariance(st.in_cmrs))
  /\ (st.pc = "src_done" /\ st.size > 0) =>
       /\ RInt(st.stats.mean) = ExactMean(ToDoubles(st.in_samples))
       /\ st.stats.stddev = Sqrt(ExactVariance(ToDoubles(st.in_samples)))

\* ------------------------------------------------- claims on the ranking
\* the non-NULL entries of the array flagged is_baseline
Flagged == {k \in 1..Len(rk.results) : ~rk.results[k].null /\ rk.results[k].is_baseline}
\* the lines of a ranking: its header and its entries
RankingLines == {k \in 1..Len(rk.out) : rk.out[k].kind \in {"header", "entry"}}
FailureOnly == Len(rk.out) = 1 /\ rk.out[1].kind = "error"

C10_TwoBaselinesFail ==
  (rk.pc = "returned" /\ Cardinality(Flagged) >= 2) =>
    /\ FailureOnly
    /\ RankingLines = {}

\* the entry lines print_results printed, in the order printed
EntryLines == SelectSeq(rk.out, LAMBDA l : l.kind = "entry")
\* the entries print_results reports: present, with results, validated
Reportable ==
  {k \in 1..rk.count :
     ~rk.results[k].null /\ rk.results[k].has_results /\ rk.results[k].is_valid}
Ranked == rk.pc = "returned" /\ Len(rk.out) > 0 /\ rk.out[1].kind = "header"

\* C11: for any result set with a baseline, NULL entries and entries without
\* results included, the entries print_results emits are in non-increasing
\* order of median latency and every reportable entry is emitted exactly once.
C11_RankingSorted ==
  Ranked =>
    /\ \A k \in 1..(Len(EntryLines) - 1) :
         EntryLines[k].median_time >= EntryLines[k + 1].median_time
    /\ \A k \in 1..Len(EntryLines) :
         EntryLines[k].median_time = rk.results[EntryLines[k].bench].median_time
    /\ \A b \in Reportable :
         Cardinality({k \in 1..Len(EntryLines) : EntryLines[k].bench = b}) = 1
    /\ \A k \in 1..Len(EntryLines) : EntryLines[k].bench \in Reportable

\* a ranking of three entries around a NULL entry in which the sort had to
\* exchange the first and the last
C11_Witness ==
  /\ Ranked
  /\ rk.count = 3
  /\ rk.results[2].null
  /\ Reportable = {1, 3}
  /\ rk.results[1].median_time < rk.results[3].median_time
  /\ Len(EntryLines) = 2
  /\ EntryLines[1].bench = 3

\* the baseline print_results ranks against: the first flagged entry
TheBaseline == CHOOSE b \in Flagged : \A c \in Flagged : b <= c

\* C12: every emitted entry that is not flagged baseline reports the ratio
\* candidate.median / baseline.median, and carries a 'faster' annotation of
\* value baseline.median / candidate.median exactly when candidate.median <
\* baseline.median; the baseline is reported with ratio 1.0.
C12_RatioAndSpeedup ==
  Ranked =>
    \A k \in 1..Len(EntryLines) :
      LET line == EntryLines[k]
          cand == rk.results[line.bench].median_time
          base == rk.results[TheBaseline].median_time
          r == line.relative_performance
          sp == line.speed_increase
      IN IF line.bench = TheBaseline
         THEN r = RInt(1) /\ ~line.faster
         ELSE rk.results[line.bench].is_baseline
              \/ /\ IF base = 0
                    THEN r.den = 0 /\ (r.num = 0 <=> cand = 0)
                    ELSE r.den > 0 /\ r.num * base = cand * r.den
                 /\ line.faster <=> cand < base
                 /\ line.faster =>
                      IF cand = 0 THEN sp.den = 0 /\ sp.num > 0
                      ELSE sp.den > 0 /\ sp.num * cand = base * sp.den

\* a ranking with the baseline, a candidate twice as fast and a candidate as
\* fast as the baseline
C12_Witness ==
  /\ Ranked
  /\ rk.results[TheBaseline].median_time = 2
  /\ \E k \in 1..Len(EntryLines) :
       /\ ~rk.results[EntryLines[k].bench].is_baseline
       /\ EntryLines[k].median_time = 1
       /\ EntryLines[k].faster
       /\ EntryLines[k].speed_increase = RInt(2)
       /\ EntryLines[k].relative_performance = Rat(1, 2)
  /\ \E k \in 1..Len(EntryLines) :
       /\ ~rk.results[EntryLines[k].bench].is_baseline
       /\ EntryLines[k].median_time = 2
       /\ ~EntryLines[k].faster

\* the benchmarks of the entry lines print_results printed
Emitted == {EntryLines[k].bench : k \in 1..Len(EntryLines)}

\* C13: print_results omits the entries whose validation failed by default and
\* includes them when the caller opts in with print_invalid: with the opt-in
\* every entry that has results is ranked.
C13_InvalidOptIn ==
  Ranked =>
    Emitted = {k \in 1..rk.count :
                 /\ ~rk.results[k].null
                 /\ rk.results[k].has_results
                 /\ (rk.results[k].is_valid \/ rk.print_invalid)}

\* ---------------------------------------------- claims on the validation
\* C17: validate_result sets the benchmark's is_valid to true when the two
\* buffers are byte-identical over the given length and to false when any
\* byte differs, for every content and length, and changes no field of any
\* other benchmark (nor any other field of this one).
C17_ValidateResultExact ==
  (hx.pc = "run" /\ hx.validated.bench # 0) =>
    LET v == hx.validated IN
    /\ Len(hx.arr) >= Len(v.before)
    /\ (Len(hx.arr) = Len(v.before)) =>
         /\ hx.arr[v.bench].is_valid = (v.differing = 0)
         /\ [hx.arr[v.bench] EXCEPT !.is_valid = FALSE]
              = [v.before[v.bench] EXCEPT !.is_valid = FALSE]
         /\ \A j \in 1..Len(hx.arr) : j # v.bench => hx.arr[j] = v.before[j]

\* a benchmark found valid is compared against a buffer that differs in its
\* last byte only and is left invalid, next to another that stays valid
C17_Witness ==
  /\ hx.pc = "run" /\ hx.validated.bench = 1
  /\ Len(hx.arr) = 2 /\ Len(hx.validated.before) = 2
  /\ hx.validated.size = MaxBuf /\ hx.validated.differing = 1
  /\ hx.validated.before[1].is_valid
  /\ ~hx.arr[1].is_valid
  /\ hx.arr[2].is_valid

\* the baseline runs up to benchmark i, and the bytes the latest of them
\* produced: the ground truth benchmark i is to be compared with
BaselinesUpTo(i) == {j \in 1..i : hx.arr[j].is_baseline}
GroundTruthOf(i) ==
  hx.produced[CHOOSE j \in BaselinesUpTo(i) : \A k \in BaselinesUpTo(i) : k <= j]
Matched(i) == hx.produced[i] = GroundTruthOf(i)
AllRegistered == hx.pc = "run" /\ Len(hx.arr) = hx.count

\* C18: at reporting time every candidate registered with validate = true
\* after a baseline has is_valid true exactly when the output it produced is byte-equal to the
\* ground truth recorded from the baseline run's output, which the candidate
\* holds as its gt.
C18_ValidAtReporting ==
  AllRegistered =>
    \A i \in 1..Len(hx.arr) :
      (hx.arr[i].validate /\ ~hx.arr[i].is_baseline /\ BaselinesUpTo(i) # {}) =>
        /\ hx.arr[i].is_valid <=> Matched(i)
        /\ ~hx.arr[i].gt.null /\ hx.arr[i].gt.bytes = GroundTruthOf(i)

\* ---------------------------------------------------- claims on the export
Exported == hx.pc = "run" /\ hx.save.called /\ hx.save.ret
UniqueName(i) ==
  \A j \in 1..Len(hx.arr) : j # i => hx.arr[j].name # hx.arr[i].name
\* the files whose header names benchmark i
FilesOf(i) == {f \in hx.save.files : f.header.name = hx.arr[i].name}

\* C14: the 'is valid' field of the export header is 'Not Validated' exactly
\* when validate is false, 'Yes' exactly when validate is true and the output
\* matched the ground truth, 'No' exactly when validate is true and it did not
\* (stated for the candidates registered after a baseline).
C14_HeaderValidity ==
  Exported =>
    \A i \in 1..Len(hx.arr) :
      (UniqueName(i) /\ ~hx.arr[i].is_baseline /\ BaselinesUpTo(i) # {}) =>
        \A f \in FilesOf(i) :
          /\ f.header.is_valid = "Not Validated" <=> ~hx.arr[i].validate
          /\ f.header.is_valid = "Yes" <=> (hx.arr[i].validate /\ Matched(i))
          /\ f.header.is_valid = "No" <=> (hx.arr[i].validate /\ ~Matched(i))

\* reading a row back: the number a digit string denotes, and the decimal
\* fraction whole.frac
RECURSIVE ParseLlu(_)
ParseLlu(digits) ==
  IF digits = <<>> THEN 0
  ELSE ParseLlu(SubSeq(digits, 1, Len(digits) - 1)) * 10 + digits[Len(digits)]
ParseF2(text) ==
  Rat(ParseLlu(text.whole) * 100 + text.frac[1] * 10 + text.frac[2], 100)
ParseRows(rows) ==
  [k \in 1..Len(rows) |->
     [latency |-> ParseLlu(rows[k].timing),
      cache_miss_rate |-> ParseF2(rows[k].cache_miss_rate)]]
\* the pairs of two parallel sequences
Pairs(smp, cmrs) ==
  [k \in 1..Len(smp) |-> [latency |-> smp[k], cache_miss_rate |-> cmrs[k]]]
\* no two benchmarks are written to one path
DistinctFiles ==
  \A i \in 1..Len(hx.arr) : Cardinality(FilesOf(i)) <= 1 /\ UniqueName(i)

\* C15: whatever the order of calculate_stats and to_csv after a run, both
\* sample sequences stay as measured, in order and pairing, and row i of the
\* exported file is the pair measured in timed iteration i.
C15_StatsLeaveSamples ==
  AllRegistered =>
    \A i \in 1..Len(hx.arr) :
      /\ hx.arr[i].samples = hx.measured[i].samples
      /\ hx.arr[i].cache_miss_rates = hx.measured[i].cmrs
      /\ (Exported /\ DistinctFiles) =>
           \A f \in FilesOf(i) :
             \A k \in 1..Len(f.rows) :
               ParseLlu(f.rows[k].timing) = hx.measured[i].samples[k]

\* C16: parsing the rows to_csv wrote yields exactly the exported sequence of
\* (latency, cache_miss_rate) pairs: same length, same order, every latency
\* and every miss rate equal to the stored value.
C16_ExportRoundTrip ==
  (Exported /\ DistinctFiles) =>
    \A i \in 1..Len(hx.arr) :
      \A f \in FilesOf(i) :
        ParseRows(f.rows) = Pairs(hx.save.exported[i].samples,
                                  hx.save.exported[i].cache_miss_rates)

\* C19: to_csv returns true exactly when a complete file has been written for
\* every benchmark; when a path is too long or a file cannot be opened it
\* returns false, and every buffer it allocated has been released.
C19_ExportOutcome ==
  (hx.pc = "run" /\ hx.save.called) =>
    /\ hx.save.ret <=>
         \A i \in 1..Len(hx.arr) :
           \E f \in hx.save.files :
             /\ f.header.name = hx.arr[i].name
             /\ Len(f.rows) = hx.arr[i].timed_iterations
    /\ hx.save.leaked = 0

\* C20: exporting benchmarks with pairwise distinct names writes no two of
\* them to the same path: after to_csv returns true every benchmark has its
\* own file.
C20_OneFilePerBenchmark ==
  (Exported /\ \A i \in 1..Len(hx.arr) : UniqueName(i)) =>
    /\ Cardinality({f.path : f \in hx.save.files}) = Len(hx.arr)
    /\ \A i \in 1..Len(hx.arr) : FilesOf(i) # {}

\* ------------------------------------------------------------ C21 .. C30
\* the call a message on stderr is about
CallOf(w) ==
  IF w = "Failed to set affinity!" THEN "sched_setaffinity" ELSE "perf_event_open"
ReportedCalls == {CallOf(w) : w \in warnings}
\* the calls whose failure the run has to report itself; a failed governor
\* write is reported by the shell that system() starts
SelfReported == {"sched_getaffinity", "sched_setaffinity", "sched_getscheduler",
                 "sched_setscheduler", "perf_event_open"}

\* C21: whatever isolation syscalls and performance-counter opens fail, the
\* run reaches its end with exactly timed_iterations latency samples, each
\* written, and has emitted a warning for every call that failed.
C21_DegradedRunCompletes ==
  pc = "done" =>
    /\ Len(results.samples) = benchmark.timed_iterations
    /\ wrote.lat = 0..(benchmark.timed_iterations - 1)
    /\ \A f \in failed \cap SelfReported : f \in ReportedCalls

\* the release steps of a pinned run, each named by the position of the macro
\* before it, in the order the macro reaches them
ReleaseSteps == <<"enable_scaling", "restore_affinity", "restore_sched", "unblock">>
\* the release step at position p has been executed in the current run
Released(p) ==
  \/ pc = "done"
  \/ \E i, j \in 1..Len(ReleaseSteps) :
       ReleaseSteps[i] = p /\ ReleaseSteps[j] = pc /\ i < j

\* C23: in a pinned run the release steps execute in the reverse order of the
\* acquire steps: the governor is restored only after the affinity mask, the
\* affinity mask only after the scheduler, the scheduler only after the
\* signals have been unblocked.
C23_ReleaseReversesAcquire ==
  Pinned(variant) =>
    /\ Released("enable_scaling") => Released("restore_affinity")
    /\ Released("restore_affinity") => Released("restore_sched")
    /\ Released("restore_sched") => Released("unblock")

\* C24: in every run variant the callable is invoked warmup_iterations +
\* timed_iterations times; while the warmup loop runs no sample has been
\* written and no timer or counter has been read or opened, and every timed
\* invocation comes after all warmup invocations.
C24_WarmupUnmeasured ==
  /\ pc = "warmup" =>
       /\ calls = idx /\ idx <= benchmark.warmup_iterations
       /\ wrote = NoWrites /\ samples = Fresh(benchmark.timed_iterations)
       /\ tstart = 0 /\ tend = 0
       /\ counter = NoCounter /\ opened = 0 /\ perf = NoPerf
  /\ pc \in {"measure", "timed_call"} =>
       calls = benchmark.warmup_iterations + idx
  /\ pc \in {"stop_counter", "write"} =>
       calls = benchmark.warmup_iterations + idx + 1
  /\ pc \in {"enable_scaling", "restore_affinity", "restore_sched", "unblock", "done"} =>
       calls = benchmark.warmup_iterations + benchmark.timed_iterations

C24_Witness ==
  /\ pc = "done"
  /\ benchmark.warmup_iterations > 0 /\ benchmark.timed_iterations > 0
  /\ calls = benchmark.warmup_iterations + benchmark.timed_iterations
  /\ wrote.lat = 0..(benchmark.timed_iterations - 1)

AcquireSteps == {"disable_scaling", "get_affinity", "set_affinity", "get_sched",
                 "set_sched", "block"}

\* C25: the phases follow in order: the callable is not invoked before every
\* isolation acquire step has finished, a run without a core pin leaves the
\* governor, the affinity mask and the scheduler as they were, and after
\* CLEANUP no statistics, report, export or cleanup operation acts on a
\* released benchmark.
C25_PhaseOrder ==
  /\ pc \in AcquireSteps => calls = 0
  /\ (variant \in Variants /\ ~Pinned(variant)) =>
       /\ governor = pre.governor /\ affinity = pre.affinity
       /\ policy = pre.policy /\ priority = pre.priority
  /\ hx.fault # "freed benchmark"

\* C26: in the cycle-count variants, for readings with end >= start, the
\* sample an iteration stores is the raw delta end - start less the overhead
\* and never greater than the raw delta.
C26_CycleSampleNoWrap ==
  [][(pc = "write" /\ Cycles(variant) /\ tend >= tstart) =>
       /\ samples'[idx + 1] = (tend - tstart) - cycle_count_overhead
       /\ samples'[idx + 1] <= tend - tstart]_vars

\* the time from reading s to reading e in nanoseconds
ElapsedNsec(s, e) ==
  (e.sec - s.sec) * (USEC_PER_SEC * NSEC_PER_USEC) + (e.nsec - s.nsec)

\* C27: in the wall-clock variants, for readings start <= end, the sample an
\* iteration stores is the elapsed time in whole microseconds,
\* floor((end - start) in nanoseconds / 1000).
C27_WallclockMicroseconds ==
  [][(pc = "write" /\ ~Cycles(variant) /\ TsLeq(tstart, tend)) =>
       samples'[idx + 1] = ElapsedNsec(tstart, tend) \div NSEC_PER_USEC]_vars

\* a double that is neither an infinity nor a NaN
Finite(r) == r.den # 0

\* C28: every relative performance and every 'faster' multiplier that
\* print_results reports is a finite number, also when the baseline's or a
\* candidate's median latency is 0.
C28_RatiosFinite ==
  Ranked =>
    \A k \in 1..Len(EntryLines) :
      /\ Finite(EntryLines[k].relative_performance)
      /\ EntryLines[k].faster => Finite(EntryLines[k].speed_increase)

\* C29: in the ranking of a set with a baseline, every benchmark registered
\* with validate = false is listed, the baseline included.
C29_UnvalidatedListed ==
  (hx.pc = "run" /\ hx.group.called /\ Len(hx.arr) = hx.count
     /\ \E b \in 1..Len(hx.arr) : hx.arr[b].is_baseline) =>
    \A i \in 1..Len(hx.arr) :
      ~hx.arr[i].validate =>
        \E l \in 1..Len(hx.group.out) :
          hx.group.out[l].kind = "entry" /\ hx.group.out[l].bench = i

\* C30: whatever number of times the macros of BENCHMARKS are run,
\* _benchmark_idx stays within BENCHMARK_COUNT and no write to
\* _benchmark_array is past its end; once every slot is filled, slot i holds
\* the benchmark of the i-th registration, an object of its own.
C30_RegistryInBounds ==
  hx.pc # "off" =>
    /\ Len(hx.arr) <= hx.count
    /\ hx.fault # "_benchmark_array overflow"
    /\ Len(hx.arr) = hx.count =>
         \A i \in 1..hx.count :
           /\ [of |-> i, kind |-> "benchmark"] \in hx.heap.live \cup hx.heap.freed
           /\ hx.arr[i].is_baseline = ([of |-> i, kind |-> "gt"]
                                         \in hx.heap.live \cup hx.heap.freed)

\* C22: once CLEANUP has run over the registered benchmarks, no buffer that
\* setup_benchmark or the run macro allocated is still allocated, none was
\* freed twice, and a ground-truth buffer was freed by its baseline only.
C22_EveryBufferReleasedOnce ==
  (hx.pc = "run" /\ hx.released) =>
    /\ hx.heap.live = {}
    /\ hx.heap.twice = {}
    /\ \A blk \in hx.heap.freed : blk.kind = "gt" => hx.arr[blk.of].is_baseline

====
